---- MODULE Spec2Model ----
(***************************************************************************)
(* Verification model of the optimizer core of HomebrewNLP-MTF:            *)
(*   src/src/optimizers.py     (update, get_optimizer)                     *)
(*   src/src/run/train.py      (get_train_model)                           *)
(*   src/src/model/backend.py  (get_variable)                              *)
(*   src/src/main.py           (main)                                      *)
(*                                                                         *)
(* Spec         : the backward walk of get_optimizer over the operation    *)
(*                list of a graph, with the accumulation of update.        *)
(* SpecTrain    : the macro-batch loop of get_train_model.                 *)
(* SpecPcgrad   : the pcgrad combination of update for one operation.      *)
(* SpecMgda     : gamma as a function of the inner products of two         *)
(*                gradients.                                               *)
(* SpecPasses   : the passes of get_optimizer over the loss list.          *)
(* SpecStep     : the per-variable update rule.                            *)
(* SpecSchedule : the learning-rate schedule.                              *)
(* SpecCache    : the parameter cache of get_variable.                     *)
(* SpecMain     : the training loop of main; SpecMainFair with fairness.   *)
(***************************************************************************)
EXTENDS Integers, Sequences, FiniteSets, TLC

VARIABLES
    \* ---- backward walk (get_optimizer / update, optimizers.py) ----
    ops,                 \* loss.graph.operations, in declaration order
    loss_len,            \* len(loss_list)
    loss_idx,            \* index of the loss-list entry being differentiated
    loss,                \* the loss tensor of the running pass (0: none yet)
    pos,                 \* number of operations of operations[::-1] visited
    pc,                  \* "start" | "walk" | "done" | "error"
    tensor_to_gradient,  \* pending map: tensor -> [seen, count, grad, nin]
    contributed,         \* history: tensor -> partial gradients given to it in this pass
    forwarded,           \* history: the gradients that passed line 57 of update
    grad_outputs,        \* history: the grad_outputs handed to each call of update
    \* ---- macro-batch driver (get_train_model, run/train.py) ----
    macro_batching,      \* params.macro_batching
    model_kinds,         \* kinds of the operations build() declares for one slice
    i,                   \* the loop index of "for i, args in enumerate(inputs, 1)"
    is_last_mbatch,      \* params.is_last_mbatch
    graph_operations,    \* graph.operations
    all_ops,             \* all_ops
    all_variables,       \* graph.all_variables; every variable of the model is
                         \* trainable and graph.trainable_variables is the same list
    update_ops,          \* the update_ops returned by the last get_optimizer call
    variable_cache,      \* params.variable_cache (ids of the cached operations)
    idx,                 \* number of "idx += 1" executed
    next_id,             \* identity of the next operation object
    calls,               \* history: the get_optimizer calls, [slice, mode]
    declared,            \* history: every operation object declared so far
    NAME_INDICES,        \* utils_core.NAME_INDICES (the names taken)
    cached_parameters,   \* params.cached_parameters
    at_build,            \* history: the two caches before and after lines 38-39
    tpc,                 \* "loop" | "built" | "done"
    \* ---- multi-loss combiner (update / get_optimizer, optimizers.py) ----
    first_grad,          \* first_grad[op.name] of one body operation (<<>>: no entry)
    loss_0_grads,        \* history: the gradient of each input in the pass of loss 0
    last_grads,          \* the gradient of each input in the pass of the last loss
    grad_in,             \* mgda: the gradient of loss 1
    combined,            \* the gradient of each input after the pcgrad block
    v1v1, v1v2, v2v2,    \* the three inner products read at loss index 2
    gamma,               \* the derived weight (<<>>: not derived yet)
    mpc,                 \* "first" | "last" | "gamma" | "done"
    \* ---- per-variable update rule (update, optimizers.py 112-200) ----
    cfg,                 \* params and the shape class of the trained variable
    manual_step,         \* manual_step, advanced by one per call
    var_value,           \* value of the trained variable
    grad_buffer,         \* the grad_accumulation buffer variable
    exp_avg_p1,          \* first-moment buffer
    exp_avg_p2,          \* second-moment buffer
    call,                \* what the last call computed and emitted (<<>>: no call yet)
    steps,               \* history: the step flag of every call
    grads,               \* history: the gradient handed to every call
    \* ---- learning-rate schedule (get_optimizer, optimizers.py 214-262) ----
    sched,               \* params: warmup_steps, learning_rate_decay_multi, plateau timespan
    global_step,         \* the global step, advanced by one per training step
    lr_divisor,          \* the variable reduce_lr_on_plateau/lr_divisor
    loss_window,         \* the variable reduce_lr_on_plateau/loss_window
    loss_ema,            \* the variable reduce_lr_on_plateau/loss_ema
    last_reduce,         \* the variable reduce_lr_on_plateau/last_reduce
    tf_learning_rate,    \* the learning rate of the last step (<<>>: no step yet)
    plateau,             \* what the plateau block computed in the last step (<<>>: none)
    reductions,          \* history: the global steps at which the divisor was multiplied
    \* ---- parameter cache (backend.get_variable) ----
    made,                \* number of Variables created by _var()
    got,                 \* the last get_variable call and its outcome (<<>>: none)
    requests,            \* history: the shared calls that returned, in order
    \* ---- the passes of get_optimizer over loss_list (optimizers.py 281-327) ----
    run_cfg,             \* multi_loss_strategy, len(loss_list), 'body' in op.name
    pass_idx,            \* loss_idx of the next pass
    pass_grads,          \* history: the gradient of the parameter in each pass
    stored,              \* first_grad[op.name] (<<>>: no entry)
    loss_1__loss_1,      \* the accumulators of get_optimizer, lines 275-279
    loss_1__loss_2,
    loss_2__loss_2,
    products,            \* v1v1, v1v2, v2v2 and gamma of lines 284-291 (<<>>: not read)
    emitted,             \* history: the update calls that went on to line 112
    \* ---- the training loop of main (main.py 95-99) ----
    train_steps,         \* params.train_steps
    checkpoint_step,     \* the global step stored in params.model_path
    current_step,        \* current_step (-1: not loaded yet)
    train_calls,         \* estimator.train calls made (0: none), counted round
                         \* 1..MaxTrainCalls
    main_pc              \* "load" | "loop" | "exit"

walkVars == <<ops, loss_len, loss_idx, loss, pos, pc, tensor_to_gradient,
              contributed, forwarded, grad_outputs>>

\* the driver's variables other than params.cached_parameters
trainRest == <<macro_batching, model_kinds, i, is_last_mbatch, graph_operations,
               all_ops, all_variables, update_ops, variable_cache, idx, next_id, calls, declared,
               NAME_INDICES, at_build, tpc>>

trainVars == <<trainRest, cached_parameters>>

cacheVars == <<made, got, requests>>

multiVars == <<first_grad, loss_0_grads, last_grads, grad_in, combined, v1v1, v1v2, v2v2,
               gamma, mpc>>

stepVars == <<cfg, manual_step, var_value, grad_buffer, exp_avg_p1, exp_avg_p2,
              call, steps, grads>>

schedVars == <<sched, global_step, lr_divisor, loss_window, loss_ema, last_reduce,
               tf_learning_rate, plateau, reductions>>

passVars == <<run_cfg, pass_idx, pass_grads, stored, loss_1__loss_1, loss_1__loss_2,
              loss_2__loss_2, products, emitted>>

mainVars == <<train_steps, checkpoint_step, current_step, train_calls, main_pc>>

vars == <<walkVars, trainVars, multiVars, stepVars, schedVars, cacheVars, passVars,
          mainVars>>

\* what the actions of one component leave alone
notWalk == <<trainVars, multiVars, stepVars, schedVars, cacheVars, passVars,
          mainVars>>

notTrain == <<walkVars, multiVars, stepVars, schedVars, cacheVars, passVars,
          mainVars>>

notMulti == <<walkVars, trainVars, stepVars, schedVars, cacheVars, passVars,
          mainVars>>

notStep == <<walkVars, trainVars, multiVars, schedVars, cacheVars, passVars,
          mainVars>>

notSched == <<walkVars, trainVars, multiVars, stepVars, cacheVars, passVars,
          mainVars>>

\* backend.get_variable writes params.cached_parameters
notCache == <<walkVars, trainRest, multiVars, stepVars, schedVars, passVars,
          mainVars>>

notMain == <<walkVars, trainVars, multiVars, stepVars, schedVars, cacheVars, passVars>>

notPass == <<walkVars, trainVars, multiVars, stepVars, schedVars, cacheVars,
          mainVars>>

-----------------------------------------------------------------------------
(* Bounds of the model.                                                    *)

\* number of operations of the graph
MaxOps == 3

\* largest macro_batching
MaxSlices == 3

\* most operations build() declares for one slice
MaxBuilt == 2

\* most Assign operations one get_optimizer call declares
MaxAssign == 2

\* largest grad_accumulation
MaxAccum == 3

\* calls of the update rule in one behaviour
MaxCalls == 4

\* largest warmup_steps
MaxWarmup == 3

\* largest reduce_lr_on_plateau_timespan
MaxTimespan == 3

\* training steps of the schedule in one behaviour
MaxGlobalStep == 6

\* get_variable calls in one behaviour
MaxGets == 4

\* largest params.train_steps
MaxTrainSteps == 5

\* estimator.train calls told apart
MaxTrainCalls == 4

-----------------------------------------------------------------------------
(* Exact arithmetic for the tensor values.  A number is a fraction         *)
(* <<n, d>> in lowest terms with d > 0; <<0, 0>> is NaN, the result of     *)
(* 0 / 0, which every operation propagates and every comparison rejects.   *)

RECURSIVE Gcd(_, _)
Gcd(a, b) == IF b = 0 THEN a ELSE Gcd(b, a % b)

Abs(x) == IF x < 0 THEN -x ELSE x

NaN == <<0, 0>>

IsNaN(x) == x[2] = 0

Q(n, d) ==
    IF d = 0 THEN NaN
    ELSE LET g == Gcd(Abs(n), Abs(d))
             sg == IF d < 0 THEN -1 ELSE 1
         IN  <<sg * (n \div g), sg * (d \div g)>>

QInt(n) == <<n, 1>>

QAdd(x, y) == IF IsNaN(x) \/ IsNaN(y) THEN NaN
              ELSE Q(x[1] * y[2] + y[1] * x[2], x[2] * y[2])

QSub(x, y) == IF IsNaN(x) \/ IsNaN(y) THEN NaN
              ELSE Q(x[1] * y[2] - y[1] * x[2], x[2] * y[2])

QMul(x, y) == IF IsNaN(x) \/ IsNaN(y) THEN NaN
              ELSE Q(x[1] * y[1], x[2] * y[2])

\* x / y; the model divides by zero only as 0 / 0
QDiv(x, y) == IF IsNaN(x) \/ IsNaN(y) THEN NaN
              ELSE Q(x[1] * y[2], x[2] * y[1])

QGeq(x, y) == ~IsNaN(x) /\ ~IsNaN(y) /\ x[1] * y[2] >= y[1] * x[2]

QEq(x, y) == ~IsNaN(x) /\ ~IsNaN(y) /\ x[1] * y[2] = y[1] * x[2]

QMin(x, y) == IF IsNaN(x) \/ IsNaN(y) THEN NaN
              ELSE IF QGeq(x, y) THEN y ELSE x

QMax(x, y) == IF IsNaN(x) \/ IsNaN(y) THEN NaN
              ELSE IF QGeq(x, y) THEN x ELSE y

QGreater(x, y) == QGeq(x, y) /\ ~QEq(x, y)

RECURSIVE QPow(_, _)
QPow(x, n) == IF n = 0 THEN QInt(1) ELSE QMul(x, QPow(x, n - 1))

RECURSIVE QSum(_)
QSum(q) == IF q = <<>> THEN QInt(0) ELSE QAdd(Head(q), QSum(Tail(q)))

\* to_fp32 / cast of a boolean tensor
Indicator(b) == IF b THEN QInt(1) ELSE QInt(0)

\* vectors of numbers
VLift(v) == [k \in DOMAIN v |-> QInt(v[k])]

VAdd(a, b) == [k \in DOMAIN a |-> QAdd(a[k], b[k])]

VSub(a, b) == [k \in DOMAIN a |-> QSub(a[k], b[k])]

VScale(a, c) == [k \in DOMAIN a |-> QMul(a[k], c)]

RECURSIVE DotUpTo(_, _, _)
DotUpTo(a, b, n) ==
    IF n = 0 THEN QInt(0)
    ELSE QAdd(DotUpTo(a, b, n - 1), QMul(a[n], b[n]))

\* einsum([a, b], output_shape=[])
Dot(a, b) == DotUpTo(a, b, Len(a))

-----------------------------------------------------------------------------
(* Values that are not fractions.  rsqrt of a fraction and the result of   *)
(* weight standardisation are atoms, <<"rsqrt", x>> and <<"std", v>>, as   *)
(* is the mean <<"mean", v>> of the tensor whose element is v; a           *)
(* value is a fraction q plus a sum of atoms with fraction coefficients,   *)
(* [q |-> q, t |-> atom :> coefficient], no coefficient being zero.        *)

Zero == QInt(0)

IsZeroQ(x) == ~IsNaN(x) /\ x[1] = 0

CoefOf(v, a) == IF a \in DOMAIN v.t THEN v.t[a] ELSE Zero

LinOf(x) == [q |-> x, t |-> <<>>]

LinAtom(c, a) == IF IsZeroQ(c) THEN LinOf(Zero)
                 ELSE [q |-> Zero, t |-> [b \in {a} |-> c]]

LinAdd(v, w) ==
    LET keep == {a \in (DOMAIN v.t) \cup (DOMAIN w.t) :
                    ~IsZeroQ(QAdd(CoefOf(v, a), CoefOf(w, a)))}
    IN  [q |-> QAdd(v.q, w.q),
         t |-> [a \in keep |-> QAdd(CoefOf(v, a), CoefOf(w, a))]]

LinScale(v, c) ==
    IF IsZeroQ(c) THEN LinOf(Zero)
    ELSE [q |-> QMul(v.q, c), t |-> [a \in DOMAIN v.t |-> QMul(v.t[a], c)]]

LinSub(v, w) == LinAdd(v, LinScale(w, QInt(-1)))

IsZeroLin(v) == IsZeroQ(v.q) /\ DOMAIN v.t = {}

-----------------------------------------------------------------------------
(* The graph.  A tensor is named by the operation that produces it: every  *)
(* operation of the model has one output, as an mtf.Variable has.  A       *)
(* trainable variable ("tvar") and any other operation without inputs      *)
(* ("const": a non-trainable variable, a constant, an imported tensor)     *)
(* have no inputs; an "op" has one or two input slots, each naming a       *)
(* tensor declared before it (forward dependency order).                   *)

OpsAt(j) ==
    {[kind |-> k, inputs |-> <<>>, has_gradient |-> TRUE] : k \in {"tvar", "const"}}
    \cup {[kind |-> "op", inputs |-> <<a>>, has_gradient |-> h] :
            a \in 1..(j - 1), h \in BOOLEAN}
    \cup {[kind |-> "op", inputs |-> <<a, b>>, has_gradient |-> h] :
            a \in 1..(j - 1), b \in 1..(j - 1), h \in BOOLEAN}

RECURSIVE GraphsOf(_)
GraphsOf(n) ==
    IF n = 0 THEN {<<>>}
    ELSE {Append(g, o) : g \in GraphsOf(n - 1), o \in OpsAt(n)}

NumOps == Len(ops)

Tensors == 1..NumOps

\* len(t.operation.outputs)
NumOutputs(t) == 1

\* xs = [x.outputs[0] for x in params.mesh.graph.trainable_variables]
TrainableOutputs == {t \in Tensors : ops[t].kind = "tvar"}

InputSet(o) == {ops[o].inputs[s] : s \in 1..Len(ops[o].inputs)}

\* The forward pass that grows downstream, operation by operation.
RECURSIVE DownstreamUpTo(_)
DownstreamUpTo(n) ==
    IF n = 0 THEN TrainableOutputs
    ELSE LET d == DownstreamUpTo(n - 1)
         IN  IF ops[n].has_gradient /\ (InputSet(n) \cap d) # {}
             THEN d \cup {n}
             ELSE d

Downstream == DownstreamUpTo(NumOps)

-----------------------------------------------------------------------------
(* Gradients are symbolic: a gradient is the set of the partial gradients  *)
(* summed into it.  The partial gradient that the gradient rule of         *)
(* operation o returns for its input slot s in the pass of loss index p    *)
(* is the term <<p, o, s>>.                                                *)

Partial(p, o, s) == <<p, o, s>>

\* the tensor loss_list[2], as a summand
LossList2Term == <<0, 0, 0>>

\* loss_grad = constant_scalar(params, 1.0): a constant has no inputs
SeedRecord == [seen |-> 0, count |-> 0, grad |-> {}, nin |-> 0]

\* mtf add(x, y): an operation with two inputs
AddInputs == 2

\* tensor_to_gradient = {loss: [0, 0, loss_grad]}
CarryPending(old, l) == [t \in (DOMAIN old) \cup {l} |->
                            IF t = l THEN SeedRecord ELSE old[t]]

FreshPending(old, l) == [t \in {l} |-> SeedRecord]

EmptyHistory == [t \in Tensors |-> <<>>]

\* grad_list[2] = add(loss_list[2], grad)
Accumulate(rec, g) == [rec EXCEPT !.grad = {LossList2Term} \cup g, !.nin = AddInputs]

\* One (inp, grad) pair of the loop of update.  st carries the pending map,
\* the histories and the error flag; nin is the number of inputs of the
\* operation that produced the gradient tensor returned by op.gradient.
UpdateSlot(st, o, s, nin) ==
    LET inp == ops[o].inputs[s]
        g   == {Partial(loss_idx, o, s)}
    IN
    IF st.err \/ inp \notin Downstream THEN st
    ELSE
      LET hist == [st.contributed EXCEPT ![inp] = Append(@, Partial(loss_idx, o, s))]
      IN
      IF inp \in DOMAIN st.t2g /\ loss_len < 3
      THEN \* grad_list[1] += 1, then loss_list[2] raises IndexError
           [st EXCEPT !.t2g[inp].count = @ + 1, !.contributed = hist, !.err = TRUE]
      ELSE
        LET rec == IF inp \in DOMAIN st.t2g
                   THEN Accumulate([st.t2g[inp] EXCEPT !.count = @ + 1], g)
                   ELSE [seen |-> 0, count |-> 1, grad |-> g, nin |-> nin]
            t2g == [t \in (DOMAIN st.t2g) \cup {inp} |->
                       IF t = inp THEN rec ELSE st.t2g[t]]
        IN
        IF NumOutputs(inp) # rec.count \/ inp \notin TrainableOutputs
        THEN [st EXCEPT !.t2g = t2g, !.contributed = hist]
        ELSE [st EXCEPT !.t2g = t2g, !.contributed = hist,
                        !.fwd = Append(@, [var |-> inp, grad |-> rec.grad,
                                           loss_idx |-> loss_idx,
                                           ncontrib |-> Len(hist[inp])])]

RECURSIVE UpdateSlots(_, _, _, _)
UpdateSlots(st, o, s, nin) ==
    IF s > Len(ops[o].inputs) THEN st
    ELSE UpdateSlots(UpdateSlot(st, o, s, nin), o, s + 1, nin)

-----------------------------------------------------------------------------
(* The actions of the walk.                                                *)

\* numbers of inputs the operation producing a returned gradient can have
GradOpInputs == {1, 2}

WalkInit ==
    /\ ops \in GraphsOf(MaxOps)
    /\ loss_len \in {1, 2, 3}
    /\ loss_idx = 0
    /\ loss = 0
    /\ pos = 0
    /\ pc = "start"
    /\ tensor_to_gradient = <<>>
    /\ contributed = EmptyHistory
    /\ forwarded = <<>>
    /\ grad_outputs = <<>>

PassEnded == pc = "walk" /\ pos = NumOps

\* for loss_idx, loss in enumerate(loss_list): the set-up of one pass
StartPass ==
    /\ \/ pc = "start"
       \/ PassEnded /\ loss_idx + 1 < loss_len
    /\ \E l \in Tensors :
         /\ loss' = l
         /\ tensor_to_gradient' = FreshPending(tensor_to_gradient, l)
    /\ loss_idx' = IF pc = "start" THEN 0 ELSE loss_idx + 1
    /\ pos' = 0
    /\ pc' = "walk"
    /\ contributed' = EmptyHistory
    /\ UNCHANGED <<ops, loss_len, forwarded, grad_outputs>>
    /\ UNCHANGED notWalk

\* one iteration of "for op in operations[::-1]", the call of update included
VisitOp ==
    /\ pc = "walk"
    /\ pos < NumOps
    /\ LET o    == NumOps - pos
           has  == o \in DOMAIN tensor_to_gradient
           seen == IF has THEN tensor_to_gradient[o].seen + 1 ELSE 0
           gone == has /\ seen = tensor_to_gradient[o].nin
           t2g  == IF ~has THEN tensor_to_gradient
                   ELSE IF gone
                        THEN [t \in (DOMAIN tensor_to_gradient) \ {o} |->
                                 tensor_to_gradient[t]]
                        ELSE [tensor_to_gradient EXCEPT ![o].seen = seen]
           skip == \/ ~ops[o].has_gradient
                   \/ ~has
                   \/ (InputSet(o) \cap Downstream) = {}
       IN
       IF skip
       THEN /\ tensor_to_gradient' = t2g
            /\ pos' = pos + 1
            /\ UNCHANGED <<pc, contributed, forwarded, grad_outputs>>
       ELSE \E nin \in GradOpInputs :
              LET st == UpdateSlots([t2g |-> t2g, contributed |-> contributed,
                                     fwd |-> forwarded, err |-> FALSE], o, 1, nin)
              IN  /\ tensor_to_gradient' = st.t2g
                  /\ contributed' = st.contributed
                  /\ forwarded' = st.fwd
                  /\ grad_outputs' =
                        Append(grad_outputs,
                               [op |-> o, loss_idx |-> loss_idx,
                                grad |-> tensor_to_gradient[o].grad,
                                contributions |-> contributed[o]])
                  /\ pc' = IF st.err THEN "error" ELSE "walk"
                  /\ pos' = IF st.err THEN pos ELSE pos + 1
    /\ UNCHANGED <<ops, loss_len, loss_idx, loss>>
    /\ UNCHANGED notWalk

\* return ...combine_assignments(update_ops), after the last loss
Finish ==
    /\ PassEnded
    /\ loss_idx + 1 = loss_len
    /\ pc' = "done"
    /\ UNCHANGED <<ops, loss_len, loss_idx, loss, pos, tensor_to_gradient,
                   contributed, forwarded, grad_outputs>>
    /\ UNCHANGED notWalk

\* the walk at rest, for the specifications of the other components
WalkIdle ==
    /\ ops = <<>>
    /\ loss_len = 1
    /\ loss_idx = 0
    /\ loss = 0
    /\ pos = 0
    /\ pc = "done"
    /\ tensor_to_gradient = <<>>
    /\ contributed = <<>>
    /\ forwarded = <<>>
    /\ grad_outputs = <<>>

-----------------------------------------------------------------------------
(* The macro-batch driver, get_train_model.  An operation object is a      *)
(* record [id, kind, slice]: kind is "Variable", "Assign" or "Other" (any  *)
(* other mtf.Operation), slice the loop index at which it was declared.    *)

ModelKinds == UNION {[1..n -> {"Variable", "Other"}] : n \in 1..MaxBuilt}

\* m fresh operation objects of the kinds given, declared in slice sl
NewOps(kinds, first, sl) ==
    [k \in 1..Len(kinds) |-> [id |-> first + k - 1, kind |-> kinds[k], slice |-> sl]]

Repeat(x, n) == [k \in 1..n |-> x]

IsAssign(op) == op.kind = "Assign"

IsVariable(op) == op.kind = "Variable"

IsNotAssign(op) == ~IsAssign(op)

\* "update" if params.is_last_mbatch else "add"
Mode(last) == IF last THEN "update" ELSE "add"

\* i == params.macro_batching
FirstSlice(k) == k = 1

IsLast(k) == k = macro_batching

\* [op for op in ops if not isinstance(op, mtf.Assign)]
KeepAll(o) == o

Retained(o) == SelectSeq(o, IsNotAssign)

\* [op for op in ops if isinstance(op, mtf.Variable)]
VariablesOf(o) == SelectSeq(o, IsVariable)

Contains(q, x) == \E k \in DOMAIN q : q[k] = x

\* the list as it is
Undeduplicated(inp) == inp

\* type(inp)(dict.fromkeys(list(inp))): the first occurrence of each element
RECURSIVE deduplicate(_)
deduplicate(inp) ==
    IF inp = <<>> THEN <<>>
    ELSE LET front == deduplicate(SubSeq(inp, 1, Len(inp) - 1))
             last  == inp[Len(inp)]
         IN  IF Contains(front, last) THEN front ELSE Append(front, last)

-----------------------------------------------------------------------------
(* The parameter cache, backend.get_variable lines 52-98.  The nested      *)
(* dict params.cached_parameters[block][config][fn_name] is a function of  *)
(* the triple; its value is [counter, fns], fns mapping a fn_id to the     *)
(* innermost dict [counter, vars], vars mapping an index to a Variable.    *)
(* A dict a lookup has just created has counter 0 and no other key.        *)

Blocks == {"0", "1"}

ConfigIds == {"a"}

FnNames == {"f", "g"}

EmptyDict == <<>>

NewLevel == [counter |-> 0, fns |-> EmptyDict]

NewInner == [counter |-> 0, vars |-> EmptyDict]

\* len(cache): the key "counter" and the other keys
DictLen(other) == Cardinality(DOMAIN other) + 1

\* line 88: if block == "0"
IsFirstBlock(block) == block = "0"

\* lines 62-98 for a call with "shared" set: the cache after the call, the
\* Variable returned (0: none) and the exception raised
get_variable(cache, block, config, fn_name, fresh) ==
    LET key   == <<block, config, fn_name>>
        level == IF key \in DOMAIN cache THEN cache[key] ELSE NewLevel
        \* lines 75-80
        count == level.counter + 1
        fn_id == IF DictLen(level.fns) = count + 1 THEN 0 ELSE count
        \* lines 82-86
        inner == IF fn_id \in DOMAIN level.fns THEN level.fns[fn_id] ELSE NewInner
        \* lines 94-95
        index == IF DictLen(inner.vars) = inner.counter + 1 THEN 0 ELSE inner.counter
        put(new_inner) ==
            (key :> [counter |-> fn_id, fns |-> (fn_id :> new_inner) @@ level.fns]) @@ cache
    IN  IF IsFirstBlock(block)
        \* lines 88-92
        THEN [cache  |-> put([counter |-> inner.counter + 1,
                              vars |-> (inner.counter :> fresh) @@ inner.vars]),
              var |-> fresh, created |-> TRUE, raised |-> ""]
        \* lines 96-98
        ELSE IF index \in DOMAIN inner.vars
        THEN [cache |-> put([counter |-> index + 1, vars |-> inner.vars]),
              var |-> inner.vars[index], created |-> FALSE, raised |-> ""]
        ELSE [cache |-> put([counter |-> index, vars |-> inner.vars]),
              var |-> 0, created |-> FALSE, raised |-> "KeyError"]

-----------------------------------------------------------------------------
TrainStart ==
    /\ macro_batching \in 1..MaxSlices
    /\ model_kinds \in ModelKinds
    /\ i = 0
    /\ is_last_mbatch = FALSE
    /\ graph_operations = <<>>
    /\ all_ops = <<>>
    /\ all_variables = <<>>
    /\ update_ops = 0
    /\ variable_cache = {}
    /\ idx = 0
    /\ next_id = 1
    /\ calls = <<>>
    /\ declared = <<>>
    /\ NAME_INDICES \in {{}, {1}}
    /\ cached_parameters = EmptyDict
    /\ at_build = <<>>
    /\ tpc = "loop"

\* the driver at rest, for the specifications of the other components
TrainIdle ==
    /\ macro_batching = 1
    /\ model_kinds = <<>>
    /\ i = 0
    /\ is_last_mbatch = FALSE
    /\ graph_operations = <<>>
    /\ all_ops = <<>>
    /\ all_variables = <<>>
    /\ update_ops = 0
    /\ variable_cache = {}
    /\ idx = 0
    /\ next_id = 1
    /\ calls = <<>>
    /\ declared = <<>>
    /\ NAME_INDICES = {}
    /\ cached_parameters = EmptyDict
    /\ at_build = <<>>
    /\ tpc = "done"

\* lines 35-55: the head of one loop iteration, build() and get_optimizer().
\* build declares the operations of the model; get_optimizer declares na
\* Assign operations and returns one update tensor per Variable of the slice.
\* line 38, NAME_INDICES.clear(), and line 39, params.cached_parameters.clear()
Kept(c, empty) == c

Cleared(c, empty) == empty

BuildSlice ==
    /\ tpc = "loop"
    /\ i < macro_batching
    /\ i' = i + 1
    /\ is_last_mbatch' = IsLast(i + 1)
    /\ \E na \in 0..MaxAssign :
         LET kinds == model_kinds \o Repeat("Assign", na)
         IN  /\ graph_operations' = graph_operations \o NewOps(kinds, next_id, i + 1)
             /\ declared' = declared \o NewOps(kinds, next_id, i + 1)
             /\ all_variables' = all_variables
                                    \o VariablesOf(NewOps(kinds, next_id, i + 1))
             /\ next_id' = next_id + Len(kinds)
    \* lines 38-40: both caches are cleared, then build names its operations
    \* and asks for its shared variables of block "0"
    /\ \E shared \in BOOLEAN :
         LET names == Cleared(NAME_INDICES, {})
             cache == Cleared(cached_parameters, EmptyDict)
         IN  /\ at_build' = Append(at_build,
                                   [slice |-> i + 1,
                                    names_before |-> NAME_INDICES,
                                    cache_before |-> cached_parameters,
                                    names |-> names, cache |-> cache])
             /\ NAME_INDICES' = names \cup DOMAIN model_kinds
             /\ cached_parameters' =
                    IF shared THEN get_variable(cache, "0", "a", "f", i + 1).cache
                    ELSE cache
    /\ update_ops' = Cardinality({k \in DOMAIN model_kinds : model_kinds[k] = "Variable"})
    /\ calls' = Append(calls, [slice |-> i + 1, mode |-> Mode(is_last_mbatch')])
    /\ tpc' = "built"
    /\ UNCHANGED <<macro_batching, model_kinds, all_ops, variable_cache, idx>>
    /\ UNCHANGED notTrain

\* lines 56-74: splice and deduplicate on the last slice; otherwise freeze the
\* update tensors (one stop_gradient operation each) and keep what is retained.
CommitSlice ==
    /\ tpc = "built"
    /\ IF is_last_mbatch
       THEN /\ graph_operations' = deduplicate(all_ops \o graph_operations)
            /\ all_variables' = deduplicate(all_variables)
            /\ tpc' = "done"
            /\ UNCHANGED <<all_ops, variable_cache, idx, next_id, declared>>
       ELSE LET frozen == NewOps(Repeat("Other", update_ops), next_id, i)
                o      == graph_operations \o frozen
            IN  /\ idx' = idx + 1
                /\ variable_cache' = variable_cache \cup
                                       {frozen[k].id : k \in DOMAIN frozen}
                /\ next_id' = next_id + update_ops
                /\ declared' = declared \o frozen
                /\ all_ops' = all_ops \o Retained(o)
                /\ graph_operations' = VariablesOf(o)
                /\ tpc' = "loop"
                /\ UNCHANGED all_variables
    /\ UNCHANGED <<macro_batching, model_kinds, i, is_last_mbatch, update_ops, calls,
                   NAME_INDICES, cached_parameters, at_build>>
    /\ UNCHANGED notTrain

-----------------------------------------------------------------------------
(* The multi-loss combiner for one body operation: the pcgrad block of     *)
(* update (lines 70-90) and the weight of mgda (get_optimizer, 283-291).   *)

\* components a gradient of the model can have
Components == {-1, 0, 1}

\* components of the gradients handed to mgda
MgdaComponents == {-40, -1, 0, 1, 40}

GradientsOver(c) == {VLift(<<a, b>>) : a \in c, b \in c}

\* for inp, grad in itr: the inputs of the operation that are forwarded
BodyInputs == {1, 2}

\* the gradients of the inputs of one operation in one pass
GradientLists == UNION {[1..n -> GradientsOver(Components)] : n \in BodyInputs}

\* the numerical floor of g_square
SquareFloor == Q(1, 1000000)

\* minimum(einsum([grad, g], output_shape=[]), 0)
ClampedDot(d) == QMin(d, QInt(0))

\* for g, sq in zip(all_grads, g_square): grad -= g * (minimum(<grad, g>, 0) / sq)
RECURSIVE Deconflict(_, _, _, _)
Deconflict(grad, others, squares, n) ==
    IF n > Len(others) \/ n > Len(squares) THEN grad
    ELSE Deconflict(VSub(grad, VScale(others[n],
                                      QDiv(ClampedDot(Dot(grad, others[n])), squares[n]))),
                    others, squares, n + 1)

\* for i in range(len(all_grads)): the rotation of all_grads; g_square grows by
\* the square of g, the last gradient the inner loop bound
RECURSIVE Rotate(_, _, _)
Rotate(all_grads, g_square, left) ==
    IF left = 0 THEN all_grads
    ELSE LET rest == Tail(all_grads)
             grad == Deconflict(Head(all_grads), rest, g_square, 1)
             g    == rest[IF Len(rest) < Len(g_square) THEN Len(rest) ELSE Len(g_square)]
         IN  Rotate(Append(rest, grad), Append(g_square, Dot(g, g)), left - 1)

\* grad = add_n(all_grads)
RECURSIVE AddN(_)
AddN(gs) == IF Len(gs) = 1 THEN gs[1] ELSE VAdd(gs[1], AddN(Tail(gs)))

\* lines 79-90
Pcgrad(grad, first) ==
    LET all_grads == <<grad, first>>
        g_square  == <<QAdd(SquareFloor, Dot(first, first))>>
    IN  AddN(Rotate(all_grads, g_square, Len(all_grads)))

\* min_gamma = 0.001
MinGamma == Q(1, 1000)

\* lines 287-291
Gamma(a11, a12, a22) ==
    LET g1 == QMul(QSub(QInt(1), MinGamma), Indicator(QGeq(a12, a11)))
        g2 == QAdd(g1, QMul(QMul(MinGamma, Indicator(QGeq(a12, a22))),
                            Indicator(QEq(g1, QInt(0)))))
        closed == QMul(QInt(-1), QDiv(QSub(a12, a22),
                                      QSub(QAdd(a11, a22), QMul(QInt(2), a12))))
    IN  QAdd(g2, QMul(closed, Indicator(QEq(g2, QInt(0)))))

MultiStart ==
    /\ first_grad = <<>>
    /\ loss_0_grads = <<>>
    /\ last_grads = <<>>
    /\ grad_in = <<>>
    /\ combined = <<>>
    /\ v1v1 = QInt(0)
    /\ v1v2 = QInt(0)
    /\ v2v2 = QInt(0)
    /\ gamma = <<>>
    /\ mpc = "first"

\* the combiner at rest, for the specifications of the other components
MultiIdle ==
    /\ first_grad = <<>>
    /\ loss_0_grads = <<>>
    /\ last_grads = <<>>
    /\ grad_in = <<>>
    /\ combined = <<>>
    /\ v1v1 = QInt(0)
    /\ v1v2 = QInt(0)
    /\ v2v2 = QInt(0)
    /\ gamma = <<>>
    /\ mpc = "done"

\* the entry of first_grad after "first_grad[op.name] = grad" for each input
RECURSIVE StoreAll(_, _, _)
StoreAll(entry, gs, k) ==
    IF k > Len(gs) THEN entry ELSE StoreAll(gs[k], gs, k + 1)

\* pcgrad, the update call of the operation in the pass of a loss before the
\* last: for every input, first_grad[op.name] = grad; continue
PcgradStore ==
    /\ mpc = "first"
    /\ \E gs \in GradientLists :
         /\ loss_0_grads' = gs
         /\ first_grad' = StoreAll(first_grad, gs, 1)
    /\ mpc' = "last"
    /\ UNCHANGED <<last_grads, grad_in, combined, v1v1, v1v2, v2v2, gamma>>
    /\ UNCHANGED notMulti

\* pcgrad, the update call of the operation in the pass of the last loss:
\* lines 79-90 for every input.  A projection that is not zero makes
\* fractions of thirteen digits (the floor 1e-6, squared), beyond the
\* integers of TLC: the gradients drawn do not conflict with first_grad.
PcgradCombine ==
    /\ mpc = "last"
    /\ \E gs \in GradientLists :
         /\ Len(gs) = Len(loss_0_grads)
         /\ \A k \in DOMAIN gs : QGeq(Dot(gs[k], first_grad), QInt(0))
         /\ last_grads' = gs
         /\ combined' = [k \in DOMAIN gs |-> Pcgrad(gs[k], first_grad)]
    /\ mpc' = "done"
    /\ UNCHANGED <<first_grad, loss_0_grads, grad_in, v1v1, v1v2, v2v2, gamma>>
    /\ UNCHANGED notMulti

(* mgda.  gamma is a function of the three values get_optimizer reads at   *)
(* lines 284-286; they are drawn here over the inner products of two       *)
(* gradients g1 and g2 of a body parameter, and lines 287-291 are applied. *)

\* a gradient g1 of loss 0
MgdaStore ==
    /\ mpc = "first"
    /\ \E g \in GradientsOver(MgdaComponents) : first_grad' = g
    /\ mpc' = "last"
    /\ UNCHANGED <<loss_0_grads, last_grads, grad_in, combined, v1v1, v1v2, v2v2, gamma>>
    /\ UNCHANGED notMulti

\* a gradient g2 of loss 1 and the inner products <g1,g1>, <g1,g2>, <g2,g2>
MgdaProducts ==
    /\ mpc = "last"
    /\ \E g \in GradientsOver(MgdaComponents) :
         /\ grad_in' = g
         /\ v1v1' = Dot(first_grad, first_grad)
         /\ v1v2' = Dot(first_grad, g)
         /\ v2v2' = Dot(g, g)
    /\ mpc' = "gamma"
    /\ UNCHANGED <<first_grad, loss_0_grads, last_grads, combined, gamma>>
    /\ UNCHANGED notMulti

\* loss_idx = 2, lines 287-291
MgdaGamma ==
    /\ mpc = "gamma"
    /\ gamma' = Gamma(v1v1, v1v2, v2v2)
    /\ mpc' = "done"
    /\ UNCHANGED <<first_grad, loss_0_grads, last_grads, grad_in, combined, v1v1, v1v2, v2v2>>
    /\ UNCHANGED notMulti

-----------------------------------------------------------------------------
(* The passes of get_optimizer over loss_list, lines 281-327, for one      *)
(* trainable input of one operation: in the pass of every loss the walk    *)
(* hands the gradient of the input to update, whose lines 69-110 decide    *)
(* what becomes of it.                                                     *)

\* params.multi_loss_strategy with the loss lists train.py lines 44-47 and
\* build hand over: one entry under linear, the two losses and None under mgda
RunConfigs ==
    [multi_loss_strategy : {"linear"}, losses : {1}, body : BOOLEAN]
        \cup [multi_loss_strategy : {"pcgrad"}, losses : {2, 3}, body : BOOLEAN]
        \cup [multi_loss_strategy : {"mgda"}, losses : {3}, body : BOOLEAN]

\* line 92 as the layout of the source binds it: the elif of "if 'body' in
\* op.name" of line 71, inside the pcgrad branch of line 70
InsidePcgrad(strategy) == strategy = "pcgrad"

\* lines 69-110 of update for one input: what is done with the gradient
\* ("store": first_grad[op.name] = grad; continue, "products": the three +=
\* and continue, "skip": continue, "combine": lines 79-90 and on to line 112,
\* "through": on to line 112), and the locals of update after the lines
Strategy(c, li, grad, entry, l11, l12, l22) ==
    LET through == [kind |-> "through", first_grad |-> entry, grad |-> grad,
                    l11 |-> l11, l12 |-> l12, l22 |-> l22]
    IN  IF c.losses > 1
        THEN IF c.multi_loss_strategy = "pcgrad" /\ c.body
             THEN IF li < c.losses - 1
                  \* lines 73-75
                  THEN [through EXCEPT !.kind = "store", !.first_grad = grad]
                  \* lines 79-90
                  ELSE [through EXCEPT !.kind = "combine", !.grad = Pcgrad(grad, entry)]
             ELSE IF InsidePcgrad(c.multi_loss_strategy)
                     /\ c.multi_loss_strategy = "mgda"
             THEN IF c.body
                  THEN IF li < 2
                       THEN IF li = 0
                            \* lines 96-97
                            THEN [through EXCEPT !.kind = "store", !.first_grad = grad]
                            \* lines 101-107
                            ELSE [through EXCEPT
                                     !.kind = "products", !.first_grad = <<>>,
                                     !.l11 = QAdd(l11, Dot(entry, entry)),
                                     !.l12 = QAdd(l12, Dot(entry, grad)),
                                     !.l22 = QAdd(l22, Dot(grad, grad))]
                       ELSE through
                  \* lines 109-110
                  ELSE IF li = 2 THEN [through EXCEPT !.kind = "skip"] ELSE through
             ELSE through
        ELSE through

PassStart ==
    /\ run_cfg \in RunConfigs
    /\ pass_idx = 0
    /\ pass_grads = <<>>
    /\ stored = <<>>
    /\ loss_1__loss_1 = QInt(0)
    /\ loss_1__loss_2 = QInt(0)
    /\ loss_2__loss_2 = QInt(0)
    /\ products = <<>>
    /\ emitted = <<>>

\* the passes at rest, for the specifications of the other components
PassIdle ==
    /\ run_cfg = <<>>
    /\ pass_idx = 0
    /\ pass_grads = <<>>
    /\ stored = <<>>
    /\ loss_1__loss_1 = QInt(0)
    /\ loss_1__loss_2 = QInt(0)
    /\ loss_2__loss_2 = QInt(0)
    /\ products = <<>>
    /\ emitted = <<>>

\* lines 283-291: under mgda, at loss index 2, the three sums are read and
\* gamma is derived
Reads(strategy, li) == strategy = "mgda" /\ li = 2

\* the update call of the operation in the pass of loss pass_idx.  update
\* receives the three accumulators as arguments: its += rebind its own
\* parameters, and the names of get_optimizer keep the tensors of lines
\* 277-279.  The gradients drawn for the combination of pcgrad do not
\* conflict with first_grad (see PcgradCombine).
UpdateInPass ==
    /\ \E grad \in GradientsOver(Components) :
         /\ (run_cfg.multi_loss_strategy = "pcgrad" /\ run_cfg.body /\ stored # <<>>)
               => QGeq(Dot(grad, stored), QInt(0))
         /\ LET u == Strategy(run_cfg, pass_idx, grad, stored,
                              loss_1__loss_1, loss_1__loss_2, loss_2__loss_2)
            IN  /\ pass_grads' = Append(pass_grads, grad)
                /\ stored' = u.first_grad
                /\ emitted' = IF u.kind \in {"through", "combine"}
                              THEN Append(emitted, [loss_idx |-> pass_idx, grad |-> u.grad])
                              ELSE emitted
    /\ pass_idx' = pass_idx + 1
    /\ UNCHANGED <<run_cfg, loss_1__loss_1, loss_1__loss_2, loss_2__loss_2>>

\* one iteration of "for loss_idx, loss in enumerate(loss_list)", lines
\* 281-327, that differentiates the entry of loss_list
LossPass ==
    /\ run_cfg # <<>>
    /\ pass_idx < run_cfg.losses
    /\ ~Reads(run_cfg.multi_loss_strategy, pass_idx)
    /\ UpdateInPass
    /\ UNCHANGED products
    /\ UNCHANGED notPass

\* the iteration of loss index 2 under mgda: the three sums are read, gamma is
\* derived, and the combined loss is differentiated
CombinedLossPass ==
    /\ run_cfg # <<>>
    /\ pass_idx < run_cfg.losses
    /\ Reads(run_cfg.multi_loss_strategy, pass_idx)
    /\ products' = [v1v1 |-> loss_1__loss_1, v1v2 |-> loss_1__loss_2,
                    v2v2 |-> loss_2__loss_2,
                    gamma |-> Gamma(loss_1__loss_1, loss_1__loss_2, loss_2__loss_2)]
    /\ UpdateInPass
    /\ UNCHANGED notPass

-----------------------------------------------------------------------------
(* The per-variable update rule, update lines 112-200, on one element of   *)
(* the trained variable, with the step flag of get_optimizer lines         *)
(* 265-270.  gradient_clip is 0 and the variable is not a rezero variable. *)

\* params.learning_rate, opt_beta1, opt_beta2, opt_epsilon, weight_decay
LearningRate == Q(1, 2)

OptBeta1 == Q(1, 2)

OptBeta2 == Q(3, 4)

OptEpsilon == Q(1, 100)

WeightDecay == Q(1, 2)

\* gradients handed to the rule
Grads == {QInt(1), QInt(-2)}

\* value of the variable before the first call
InitialValue == QInt(3)

\* params.optimizer: two of the names update has a branch for, a name the
\* configuration recognizes but update has no branch for, and a name outside
\* the recognized set.  novograd and sm3 are not drawn.
OptimizerNames == {"sgd", "adam", "factorized_adam", "other"}

RecognizedOptimizers == {"adam", "sgd", "novograd", "sm3", "factorized_adam"}

\* params.multi_loss_strategy for a loss list of one entry: pcgrad and mgda
\* act on longer lists
StrategyNames == {"linear", "other"}

RecognizedStrategies == {"linear", "pcgrad", "mgda"}

Configs ==
    {c \in [grad_accumulation : 1..MaxAccum,
            optimizer : OptimizerNames,
            multi_loss_strategy : StrategyNames,
            ndims : {1, 2},
            large_tensor : BOOLEAN,
            weight_decay : {Zero, WeightDecay},
            weight_centralisation : BOOLEAN,
            weight_standardisation : BOOLEAN,
            opt_beta1 : {Zero, OptBeta1}] :
        /\ c.large_tensor => c.ndims >= 2
        /\ ~c.large_tensor =>
              (c.weight_decay = Zero /\ ~c.weight_centralisation
                 /\ ~c.weight_standardisation)}

\* left * alpha + right * (1 - alpha)
SwappedAdd(left, right, alpha) ==
    QAdd(QMul(left, QSub(QInt(1), alpha)), QMul(right, alpha))

weighted_add(left, right, alpha) ==
    QAdd(QMul(left, alpha), QMul(right, QSub(QInt(1), alpha)))

\* a step flag that is 1 on every call
EveryCall(ms, n) == QInt(1)

\* step = cast(equal(mod(manual_step + 1, grad_accumulation), 0))
StepFlag(ms, n) == Indicator((ms + 1) % n = 0)

\* if params.grad_accumulation > 1: weight_update = multiply(weight_update, step)
Gated(c, wu, step) == IF c.grad_accumulation > 1 THEN LinScale(wu, step) ELSE wu

\* if var.shape.ndims <= 1 or params.optimizer == 'adam'
AdamOnlyByName(c) == c.optimizer = "adam"

AdamPath(c) == c.ndims <= 1 \/ c.optimizer = "adam"

\* line 190: if large_tensor and params.weight_standardisation
NeverStandardised(c) == FALSE

Standardised(c) == c.large_tensor /\ c.weight_standardisation

\* weight_update is bound by one of the branches of lines 135-170
Bound(c) == AdamPath(c) \/ c.optimizer = "sgd"

\* One call of the rule: the new buffers and the write emitted on the variable.
\* The strategy name is read only under len(loss_list) > 1 (line 69), and
\* there only compared with "pcgrad" and "mgda": any other name falls through
\* to line 112.
Update(c, ms, value, buffer, p1, p2, g) ==
    LET step  == StepFlag(ms, c.grad_accumulation)
        mstep == QSub(QInt(1), step)
        beta1 == QSub(QInt(1), QMul(step, QSub(QInt(1), c.opt_beta1)))
        beta2 == QSub(QInt(1), QMul(step, QSub(QInt(1), OptBeta2)))
        accum == c.grad_accumulation > 1
        next_grad == QAdd(g, buffer)
        \* lines 112-117
        buffer2 == IF accum THEN QMul(next_grad, mstep) ELSE buffer
        grad    == IF accum
                   THEN QMul(QMul(next_grad, step), Q(1, c.grad_accumulation))
                   ELSE g
        \* lines 135-146
        adam  == AdamPath(c)
        p2n   == IF adam THEN weighted_add(p2, QMul(grad, grad), beta2) ELSE p2
        useb1 == adam /\ ~IsZeroQ(c.opt_beta1)
        grad2 == IF useb1 THEN weighted_add(p1, grad, beta1) ELSE grad
        p1n   == IF useb1 THEN grad2 ELSE p1
        wu0   == IF adam THEN LinAtom(grad2, <<"rsqrt", QAdd(p2n, OptEpsilon)>>)
                 ELSE LinOf(grad)
        \* line 172
        wu1   == LinScale(wu0, LearningRate)
        \* lines 183-185
        wu2   == IF c.large_tensor /\ ~IsZeroQ(c.weight_decay)
                 THEN LinAdd(value, LinScale(value, QMul(c.weight_decay, LearningRate)))
                 ELSE wu1
        \* lines 186-187: reduce_mean(var.value), a function of the whole tensor
        wu3   == IF c.large_tensor /\ c.weight_centralisation
                 THEN LinAdd(wu2, LinAtom(QInt(1), <<"mean", value>>)) ELSE wu2
        \* lines 188-189
        wu4   == Gated(c, wu3, step)
        \* lines 190-200
        write == IF Standardised(c)
                 THEN [kind |-> "assign",
                       operand |-> LinAtom(QInt(1), <<"std", LinSub(value, wu4)>>)]
                 ELSE [kind |-> "assign_sub", operand |-> wu4]
    IN  IF Bound(c)
        THEN [raised |-> "", step |-> step, grad_in |-> g, grad_opt |-> grad,
              buffer_before |-> buffer, value_before |-> value,
              p1_before |-> p1, p2_before |-> p2, optimizer_update |-> wu1,
              weight_update |-> wu4, write |-> write,
              grad_buffer |-> buffer2, exp_avg_p1 |-> p1n, exp_avg_p2 |-> p2n,
              value |-> IF write.kind = "assign" THEN write.operand
                        ELSE LinSub(value, write.operand)]
        \* line 172 reads weight_update, which no branch has bound: the graph
        \* of this step is never run
        ELSE [raised |-> "UnboundLocalError", step |-> step, grad_in |-> g,
              grad_opt |-> grad, buffer_before |-> buffer, value_before |-> value,
              p1_before |-> p1, p2_before |-> p2, optimizer_update |-> LinOf(Zero),
              weight_update |-> LinOf(Zero),
              write |-> [kind |-> "none", operand |-> LinOf(Zero)],
              grad_buffer |-> buffer, exp_avg_p1 |-> p1, exp_avg_p2 |-> p2,
              value |-> value]

StepStart ==
    /\ cfg \in Configs
    /\ manual_step = 0
    /\ var_value = LinOf(InitialValue)
    /\ grad_buffer = Zero
    /\ exp_avg_p1 = Zero
    /\ exp_avg_p2 = Zero
    /\ call = <<>>
    /\ steps = <<>>
    /\ grads = <<>>

\* the update rule at rest, for the specifications of the other components
StepIdle ==
    /\ cfg = <<>>
    /\ manual_step = 0
    /\ var_value = LinOf(InitialValue)
    /\ grad_buffer = Zero
    /\ exp_avg_p1 = Zero
    /\ exp_avg_p2 = Zero
    /\ call = <<>>
    /\ steps = <<>>
    /\ grads = <<>>

\* one training step: the graph built by get_optimizer and update is run once
UpdateCall ==
    /\ manual_step < MaxCalls
    /\ IF call = <<>> THEN TRUE ELSE call.raised = ""
    /\ \E g \in Grads :
         LET r == Update(cfg, manual_step, var_value, grad_buffer, exp_avg_p1,
                         exp_avg_p2, g)
         IN  /\ call' = r
             /\ var_value' = r.value
             /\ grad_buffer' = r.grad_buffer
             /\ exp_avg_p1' = r.exp_avg_p1
             /\ exp_avg_p2' = r.exp_avg_p2
             /\ steps' = IF r.raised = "" THEN Append(steps, r.step) ELSE steps
             /\ grads' = IF r.raised = "" THEN Append(grads, g) ELSE grads
             /\ manual_step' = IF r.raised = "" THEN manual_step + 1 ELSE manual_step
    /\ UNCHANGED cfg
    /\ UNCHANGED notStep

-----------------------------------------------------------------------------
(* The learning-rate schedule of get_optimizer, lines 214-262: warmup,     *)
(* decay and the plateau block, run once per training step.                *)

\* params.learning_rate_decay_multi, _start_step and _min
DecayMulti == Q(1, 2)

DecayStart == 2

DecayMin == Q(1, 8)

\* params.reduce_lr_on_plateau_reduction
PlateauReduction == QInt(2)

\* loss_sum = add_n(loss_list)
Losses == {QInt(1), QInt(2), QInt(4)}

Schedules ==
    [warmup_steps : 0..MaxWarmup,
     learning_rate_decay_multi : {QInt(0), QInt(1), DecayMulti},
     reduce_lr_on_plateau_timespan : 0..MaxTimespan]

\* lines 224-227
NoWarmup(c, gs, lr) == lr

Warmup(c, gs, lr) ==
    IF c.warmup_steps > 0
    THEN LET is_warmup == Indicator(gs < c.warmup_steps)
         IN  QMul(lr, weighted_add(Q(gs, c.warmup_steps), QInt(1), is_warmup))
    ELSE lr

\* lines 229-234
Decay(c, gs, lr) ==
    IF c.learning_rate_decay_multi # QInt(0) /\ c.learning_rate_decay_multi # QInt(1)
    THEN QMax(QMul(lr, QPow(c.learning_rate_decay_multi,
                            IF gs - DecayStart > 0 THEN gs - DecayStart ELSE 0)),
              DecayMin)
    ELSE lr

\* reduce = reduce * (params.reduce_lr_on_plateau_reduction - 1) + 1
ScaledOnly(reduce) == QMul(reduce, PlateauReduction)

Factor(reduce) == QAdd(QMul(reduce, QSub(PlateauReduction, QInt(1))), QInt(1))

\* lines 246-262: the values the plateau block computes and assigns
Plateau(c, gs, divisor_ptr, loss_window_ptr, loss_ema_ptr, last, loss_sum) ==
    LET span == c.reduce_lr_on_plateau_timespan
        hot  == (gs % span) + 1
        loss_window_new == [k \in 1..span |->
                               IF k = hot THEN loss_sum ELSE loss_window_ptr[k]]
        window_mean == QMul(QSum(loss_window_new), Q(1, span))
        ema  == QAdd(QMul(loss_ema_ptr, Q(2, span)),
                     QMul(loss_sum, QSub(QInt(1), Q(2, span))))
        cond == QGreater(QInt(gs), QAdd(last, QInt(span))) /\ QGreater(window_mean, ema)
        reduce == Factor(Indicator(cond))
    IN  [global_step |-> gs, window_mean |-> window_mean, loss_ema |-> ema,
         reduced |-> cond, divisor_before |-> divisor_ptr, last_before |-> last,
         divisor |-> QMul(divisor_ptr, reduce),
         loss_window |-> loss_window_new,
         last_reduce |-> weighted_add(last, QInt(gs), reduce)]

SchedStart ==
    /\ sched \in Schedules
    /\ global_step = 0
    /\ lr_divisor = QInt(1)
    /\ loss_window = [k \in 1..sched.reduce_lr_on_plateau_timespan |-> QInt(0)]
    /\ loss_ema = QInt(0)
    /\ last_reduce = QInt(0)
    /\ tf_learning_rate = <<>>
    /\ plateau = <<>>
    /\ reductions = <<>>

\* the schedule at rest, for the specifications of the other components
SchedIdle ==
    /\ sched = <<>>
    /\ global_step = 0
    /\ lr_divisor = QInt(1)
    /\ loss_window = <<>>
    /\ loss_ema = QInt(0)
    /\ last_reduce = QInt(0)
    /\ tf_learning_rate = <<>>
    /\ plateau = <<>>
    /\ reductions = <<>>

\* one training step with the plateau block disabled: lines 216-234
ScheduleStep ==
    /\ global_step < MaxGlobalStep
    /\ sched.reduce_lr_on_plateau_timespan = 0
    /\ tf_learning_rate' = Decay(sched, global_step,
                                 Warmup(sched, global_step, LearningRate))
    /\ global_step' = global_step + 1
    /\ UNCHANGED <<sched, lr_divisor, loss_window, loss_ema, last_reduce, plateau,
                   reductions>>
    /\ UNCHANGED notSched

\* one training step with the plateau block enabled: lines 216-262
PlateauStep ==
    /\ global_step < MaxGlobalStep
    /\ sched.reduce_lr_on_plateau_timespan > 0
    /\ \E loss_sum \in Losses :
         LET r == Plateau(sched, global_step, lr_divisor, loss_window, loss_ema,
                          last_reduce, loss_sum)
         IN  /\ plateau' = r
             /\ tf_learning_rate' = QDiv(Decay(sched, global_step,
                                               Warmup(sched, global_step, LearningRate)),
                                         r.divisor)
             /\ lr_divisor' = r.divisor
             /\ loss_window' = r.loss_window
             /\ loss_ema' = r.loss_ema
             /\ last_reduce' = r.last_reduce
             /\ reductions' = IF r.reduced THEN Append(reductions, global_step)
                              ELSE reductions
    /\ global_step' = global_step + 1
    /\ UNCHANGED sched
    /\ UNCHANGED notSched

-----------------------------------------------------------------------------
CacheStart ==
    /\ made = 0
    /\ got = <<>>
    /\ requests = <<>>

\* the cache at rest, for the specifications of the other components
CacheIdle ==
    /\ made = 0
    /\ got = <<>>
    /\ requests = <<>>

\* the call index of a call: one more than the earlier calls of the same
\* block, config and function name
CallIndex(block, config, fn_name) ==
    1 + Cardinality({k \in DOMAIN requests :
                        /\ requests[k].block = block
                        /\ requests[k].config = config
                        /\ requests[k].fn_name = fn_name})

\* get_variable with "shared" in args
GetShared ==
    /\ Len(requests) < MaxGets
    /\ IF got = <<>> THEN TRUE ELSE got.raised = ""
    /\ \E block \in Blocks, config \in ConfigIds, fn_name \in FnNames :
         LET r == get_variable(cached_parameters, block, config, fn_name, made + 1)
             q == [block |-> block, config |-> config, fn_name |-> fn_name,
                   index |-> CallIndex(block, config, fn_name), var |-> r.var,
                   created |-> r.created, raised |-> r.raised]
         IN  /\ cached_parameters' = r.cache
             /\ made' = IF r.created THEN made + 1 ELSE made
             /\ got' = q
             /\ requests' = IF r.raised = "" THEN Append(requests, q) ELSE requests
    /\ UNCHANGED notCache

\* get_variable without "shared": return _var()
GetUnshared ==
    /\ made < MaxGets
    /\ IF got = <<>> THEN TRUE ELSE got.raised = ""
    /\ made' = made + 1
    /\ got' = [block |-> "", config |-> "", fn_name |-> "", index |-> 0,
               var |-> made + 1, created |-> TRUE, raised |-> ""]
    /\ UNCHANGED <<requests, cached_parameters>>
    /\ UNCHANGED notCache

-----------------------------------------------------------------------------
(* The training loop of main, main.py lines 95-99.  estimator.train with   *)
(* max_steps = train_steps trains until the global step of the model       *)
(* directory is train_steps and returns at once when it already is.        *)

MainStart ==
    /\ train_steps \in 1..MaxTrainSteps
    /\ checkpoint_step \in 0..(MaxTrainSteps + 1)
    /\ current_step = -1
    /\ train_calls = 0
    /\ main_pc = "load"

\* the loop at rest, for the specifications of the other components
MainIdle ==
    /\ train_steps = 1
    /\ checkpoint_step = 0
    /\ current_step = -1
    /\ train_calls = 0
    /\ main_pc = "exit"

\* line 95: current_step = int(_load_global_step_from_checkpoint_dir(model_path))
LoadStep ==
    /\ main_pc = "load"
    /\ current_step' = checkpoint_step
    /\ main_pc' = "loop"
    /\ UNCHANGED <<train_steps, checkpoint_step, train_calls>>
    /\ UNCHANGED notMain

\* lines 97-99: the condition holds and estimator.train runs to max_steps;
\* the loop body does not assign current_step
TrainCall ==
    /\ main_pc = "loop"
    /\ current_step < train_steps
    /\ checkpoint_step' = IF checkpoint_step < train_steps THEN train_steps
                          ELSE checkpoint_step
    /\ train_calls' = (train_calls % MaxTrainCalls) + 1
    /\ UNCHANGED <<train_steps, current_step, main_pc>>
    /\ UNCHANGED notMain

\* line 97: the condition fails and main returns
ExitLoop ==
    /\ main_pc = "loop"
    /\ ~(current_step < train_steps)
    /\ main_pc' = "exit"
    /\ UNCHANGED <<train_steps, checkpoint_step, current_step, train_calls>>
    /\ UNCHANGED notMain

Init == WalkInit /\ TrainIdle /\ MultiIdle /\ StepIdle /\ SchedIdle /\ CacheIdle /\ PassIdle
    /\ MainIdle

Next == StartPass \/ VisitOp \/ Finish

Spec == Init /\ [][Next]_vars

TrainInit == TrainStart /\ WalkIdle /\ MultiIdle /\ StepIdle /\ SchedIdle /\ CacheIdle /\ PassIdle
    /\ MainIdle

TrainNext == BuildSlice \/ CommitSlice

SpecTrain == TrainInit /\ [][TrainNext]_vars

MultiInit == MultiStart /\ WalkIdle /\ TrainIdle /\ StepIdle /\ SchedIdle /\ CacheIdle /\ PassIdle
    /\ MainIdle

PcgradNext == PcgradStore \/ PcgradCombine

SpecPcgrad == MultiInit /\ [][PcgradNext]_vars

MgdaNext == MgdaStore \/ MgdaProducts \/ MgdaGamma

SpecMgda == MultiInit /\ [][MgdaNext]_vars

StepInit == StepStart /\ WalkIdle /\ TrainIdle /\ MultiIdle /\ SchedIdle /\ CacheIdle /\ PassIdle
    /\ MainIdle

StepNext == UpdateCall

SpecStep == StepInit /\ [][StepNext]_vars

SchedInit == SchedStart /\ WalkIdle /\ TrainIdle /\ MultiIdle /\ StepIdle /\ CacheIdle /\ PassIdle
    /\ MainIdle

SchedNext == ScheduleStep \/ PlateauStep

SpecSchedule == SchedInit /\ [][SchedNext]_vars

PassInit == PassStart /\ WalkIdle /\ TrainIdle /\ MultiIdle /\ StepIdle /\ SchedIdle /\ CacheIdle
    /\ MainIdle

PassNext == LossPass \/ CombinedLossPass

SpecPasses == PassInit /\ [][PassNext]_vars

MainInit == MainStart /\ WalkIdle /\ TrainIdle /\ MultiIdle /\ StepIdle /\ SchedIdle /\ CacheIdle
    /\ PassIdle

MainNext == LoadStep \/ TrainCall \/ ExitLoop

SpecMain == MainInit /\ [][MainNext]_vars

\* the loop runs on: a step that is enabled is eventually taken
SpecMainFair == SpecMain /\ WF_vars(MainNext)

CacheInit == CacheStart /\ WalkIdle /\ TrainIdle /\ MultiIdle /\ StepIdle /\ SchedIdle /\ PassIdle
    /\ MainIdle

CacheNext == GetShared \/ GetUnshared

SpecCache == CacheInit /\ [][CacheNext]_vars

-----------------------------------------------------------------------------
(* Ground truth about the graph, computed from its structure alone.        *)

\* Tensors met walking back from tensor l through operations that support
\* gradients (an input is declared before its consumer, so one descending
\* sweep closes the set).
RECURSIVE ReachDownTo(_, _)
ReachDownTo(l, n) ==
    IF n > NumOps THEN {l}
    ELSE LET r == ReachDownTo(l, n + 1)
         IN  IF n \in r /\ ops[n].has_gradient THEN r \cup InputSet(n) ELSE r

ReachableFrom(l) == ReachDownTo(l, 1)

\* the trainable variables at the end of a path of one or more operations
ReachableVars(l) ==
    {v \in TrainableOutputs :
        \E o \in ReachableFrom(l) : ops[o].has_gradient /\ v \in InputSet(o)}

\* The input slots <<o, s>> that hand a partial gradient to tensor t in the
\* pass over loss l.
ContributingSlots(t, l) ==
    {<<o, s>> \in (1..NumOps) \X {1, 2} :
        /\ s <= Len(ops[o].inputs)
        /\ ops[o].inputs[s] = t
        /\ ops[o].has_gradient
        /\ o \in ReachableFrom(l)
        /\ t \in Downstream}

ForwardedIn(p) == {n \in DOMAIN forwarded : forwarded[n].loss_idx = p}

ForwardedVars(p) == {forwarded[n].var : n \in ForwardedIn(p)}

SeqToSet(q) == {q[n] : n \in DOMAIN q}

-----------------------------------------------------------------------------
(* C1: when a backward pass over a loss ends, the trainable variables      *)
(* whose gradient was forwarded to the update rule are exactly those       *)
(* reachable from the loss through gradient-supporting operations, and     *)
(* the pass raised no error.                                               *)
C1_UpdatedExactlyReachable ==
    (PassEnded \/ pc = "error") =>
        /\ pc # "error"
        /\ ForwardedVars(loss_idx) = ReachableVars(loss)

(* C2: after the k-th contribution to a tensor its record holds the exact  *)
(* sum of the k partial gradients contributed so far.                      *)
C2_AccumulatedIsExactSum ==
    \A t \in DOMAIN tensor_to_gradient :
        tensor_to_gradient[t].count >= 1 =>
            /\ tensor_to_gradient[t].count = Len(contributed[t])
            /\ tensor_to_gradient[t].grad = SeqToSet(contributed[t])

(* C3: a gradient is forwarded to the update rule only once every          *)
(* contributing consumer slot of the variable has contributed.             *)
C3_ForwardedOnlyWhenComplete ==
    \A n \in ForwardedIn(loss_idx) :
        forwarded[n].ncontrib = Cardinality(ContributingSlots(forwarded[n].var, loss))

(* C4: a record stays in the pending map until all k contributions have    *)
(* arrived, and when the pass ends the pending map is empty (the seed      *)
(* record of the loss included).                                           *)
C4_NoRecordLeaked ==
    /\ \A t \in Tensors :
          (pc = "walk" /\ contributed[t] # <<>> /\ t <= NumOps - pos)
              => t \in DOMAIN tensor_to_gradient
    /\ PassEnded => DOMAIN tensor_to_gradient = {}

(* C5: in the pass of one loss-list entry a variable is forwarded at most  *)
(* once; every pass starts from a pending map holding only the seed of     *)
(* its loss, and no record ever sums a gradient of another loss's pass.    *)
C5_OneForwardPerPass ==
    /\ \A m, n \in DOMAIN forwarded :
          (forwarded[m].var = forwarded[n].var
             /\ forwarded[m].loss_idx = forwarded[n].loss_idx) => m = n
    /\ (pc = "walk" /\ pos = 0) => tensor_to_gradient = [t \in {loss} |-> SeedRecord]
    /\ \A t \in DOMAIN tensor_to_gradient :
          \A g \in tensor_to_gradient[t].grad :
              g = LossList2Term \/ g[1] = loss_idx

\* a variable with two contributions in the pass of the second loss, already
\* forwarded in the pass of the first loss and again in this one
C5_Witness ==
    /\ loss_idx = 1
    /\ \E v \in TrainableOutputs :
          /\ Len(contributed[v]) >= 2
          /\ v \in ForwardedVars(0)
          /\ v \in ForwardedVars(1)

-----------------------------------------------------------------------------
AssignsOf(q) == {q[k] : k \in {n \in DOMAIN q : IsAssign(q[n])}}

DeclaredAssigns(sl) == {op \in AssignsOf(declared) : op.slice = sl}

(* C7: the committed graph holds no Assign operation declared in a         *)
(* non-final slice: its Assign operations are exactly those the final      *)
(* slice declared.                                                         *)
C7_NoAssignFromEarlierSlice ==
    tpc = "done" =>
        /\ \A op \in AssignsOf(graph_operations) : op.slice = macro_batching
        /\ AssignsOf(graph_operations) = DeclaredAssigns(macro_batching)
        /\ Len(SelectSeq(graph_operations, IsAssign))
             = Cardinality(DeclaredAssigns(macro_batching))

\* a run of two or more slices in which an earlier slice and the final slice
\* both declared Assign operations
C7_Witness ==
    /\ tpc = "done"
    /\ macro_batching >= 2
    /\ \E sl \in 1..(macro_batching - 1) : DeclaredAssigns(sl) # {}
    /\ DeclaredAssigns(macro_batching) # {}

(* C8: get_optimizer is called once per slice, in slice order 1..N, with   *)
(* mode "add" for every slice before the last and "update" for the last;   *)
(* the "update" call is the last call.                                     *)
C8_ModePerSlice ==
    /\ Len(calls) = i
    /\ Len(calls) <= macro_batching
    /\ \A k \in DOMAIN calls :
          /\ calls[k].slice = k
          /\ calls[k].mode = (IF k = macro_batching THEN "update" ELSE "add")
    /\ tpc = "done" => Len(calls) = macro_batching

\* a finished run of two or more slices
C8_Witness ==
    /\ tpc = "done"
    /\ macro_batching >= 2
    /\ calls[1].mode = "add"
    /\ calls[Len(calls)].mode = "update"

-----------------------------------------------------------------------------
(* C9: under pcgrad with two losses, for every body parameter whose two    *)
(* gradients g1 and g2 have a non-negative dot product the combined        *)
(* gradient is their plain sum g1 + g2.                                    *)
C9_PcgradSumWhenNoConflict ==
    mpc = "done" =>
        \A k \in DOMAIN last_grads :
            QGeq(Dot(loss_0_grads[k], last_grads[k]), QInt(0))
                => combined[k] = VAdd(loss_0_grads[k], last_grads[k])

\* what the code does: every input is combined with the one entry of the
\* operation, the gradient of its last input in the pass of loss 0
SumWithLastStored ==
    mpc = "done" =>
        \A k \in DOMAIN last_grads :
            combined[k] = VAdd(loss_0_grads[Len(loss_0_grads)], last_grads[k])

(* C10: the weight gamma of mgda lies in [0.001, 0.999] for the inner      *)
(* products of any two gradients, the closed-form case included.           *)
C10_GammaInRange ==
    mpc = "done" =>
        /\ QGeq(gamma, MinGamma)
        /\ QGeq(QSub(QInt(1), MinGamma), gamma)

-----------------------------------------------------------------------------
\* number of calls among the n calls ending with call k whose step flag is 1
RECURSIVE Commits(_, _)
Commits(k, n) ==
    IF n = 0 THEN 0
    ELSE Commits(k - 1, n - 1) + (IF steps[k] = QInt(1) THEN 1 ELSE 0)

\* the step flag is 1 on the calls with (manual_step + 1) mod N = 0, one call
\* of every N consecutive ones
OneCommitInN ==
    /\ \A k \in DOMAIN steps :
          steps[k] = Indicator(k % cfg.grad_accumulation = 0)
    /\ \A k \in DOMAIN steps :
          k >= cfg.grad_accumulation => Commits(k, cfg.grad_accumulation) = 1

Accumulating ==
    /\ call # <<>> /\ call.raised = ""
    /\ cfg.grad_accumulation > 1 /\ call.step = Zero

(* C6 as stated: with grad_accumulation = N > 1 one call of every N has    *)
(* step flag 1; on the other calls the buffer grows and no assign_sub or   *)
(* assign on the trained variable is emitted.                              *)
C6_NoWriteWhenAccumulating ==
    (call # <<>> /\ call.raised = "" /\ cfg.grad_accumulation > 1) =>
        /\ OneCommitInN
        /\ Accumulating =>
              /\ grad_buffer = QAdd(call.buffer_before, call.grad_in)
              /\ call.write.kind = "none"

(* What the code does on an accumulating call: the buffer grows by the     *)
(* gradient and the write on the trained variable is still emitted, an     *)
(* assign_sub of a zero update, which leaves the variable as it was, or,   *)
(* for a large tensor under weight standardisation, an assign of the       *)
(* standardised value.                                                     *)
ZeroUpdateWhenAccumulating ==
    (call # <<>> /\ call.raised = "" /\ cfg.grad_accumulation > 1) =>
        /\ OneCommitInN
        /\ Accumulating =>
              /\ grad_buffer = QAdd(call.buffer_before, call.grad_in)
              /\ call.write.kind = "assign_sub" =>
                    /\ IsZeroLin(call.write.operand)
                    /\ var_value = call.value_before
              /\ call.write.kind = "assign" =>
                    /\ cfg.large_tensor /\ cfg.weight_standardisation
                    /\ call.write.operand = LinAtom(QInt(1), <<"std", call.value_before>>)
                    /\ var_value # call.value_before
              /\ call.write.kind \in {"assign_sub", "assign"}

-----------------------------------------------------------------------------
(* C11: under mgda, gamma is exactly 0.999 when <g1,g2> >= <g1,g1>, and    *)
(* exactly 0.001 when <g1,g2> >= <g2,g2> and not <g1,g2> >= <g1,g1>: the   *)
(* closed-form term adds nothing in these two cases.                       *)
C11_BoundaryGamma ==
    mpc = "done" =>
        /\ QGeq(v1v2, v1v1) => gamma = QSub(QInt(1), MinGamma)
        /\ (QGeq(v1v2, v2v2) /\ ~QGeq(v1v2, v1v1)) => gamma = MinGamma

\* what the code does: the boundary values, unless the two gradients are equal
\* and the closed form is 0/0
BoundaryGammaUnlessEqual ==
    (mpc = "done" /\ first_grad # grad_in) => C11_BoundaryGamma

-----------------------------------------------------------------------------
\* the configuration of the sgd scenario: sgd, no weight decay, no accumulation
SgdScenario ==
    /\ call # <<>>
    /\ cfg.optimizer = "sgd"
    /\ cfg.weight_decay = Zero
    /\ cfg.grad_accumulation = 1

\* the write is assign_sub(var, u) and the variable is var_before - u
Subtracted(u) ==
    /\ call.write = [kind |-> "assign_sub", operand |-> u]
    /\ var_value = LinSub(call.value_before, u)

AdamNumerator ==
    IF IsZeroQ(cfg.opt_beta1) THEN call.grad_opt ELSE exp_avg_p1

\* learning_rate x numerator x rsqrt(exp_avg_p2 + epsilon)
AdamUpdate ==
    LinScale(LinAtom(AdamNumerator, <<"rsqrt", QAdd(exp_avg_p2, OptEpsilon)>>),
             LearningRate)

\* neither weight centralisation nor weight standardisation acts on the variable
PlainWrite == ~(cfg.large_tensor /\ (cfg.weight_centralisation \/ cfg.weight_standardisation))

-----------------------------------------------------------------------------
\* learning_rate x numerator x rsqrt((1 - beta2) x grad^2 + epsilon)
FirstAdamUpdate(numerator, grad) ==
    LinScale(LinAtom(numerator,
                     <<"rsqrt", QAdd(QMul(QSub(QInt(1), OptBeta2), QMul(grad, grad)),
                                     OptEpsilon)>>),
             LearningRate)

FirstCommit ==
    /\ call # <<>>
    /\ Len(steps) = cfg.grad_accumulation

\* weight decay, centralisation and standardisation do not act on the variable
Unprocessed == PlainWrite /\ ~(cfg.large_tensor /\ cfg.weight_decay # Zero)

-----------------------------------------------------------------------------
\* the names of the configuration are in the recognized sets
RecognizedNames ==
    /\ cfg.optimizer \in RecognizedOptimizers
    /\ cfg.multi_loss_strategy \in RecognizedStrategies

(* C14: an optimizer name or a multi_loss_strategy name outside the        *)
(* recognized sets is rejected before anything is built: no variable is    *)
(* ever processed under such a name, neither to the end (accepted          *)
(* silently) nor up to a later failure.                                    *)
C14_UnknownNameRejected == call # <<>> => RecognizedNames

\* what the code does with a name outside the recognized sets: a variable of
\* two or more dimensions under an optimizer name without a branch fails at
\* line 172; every other variable is updated as under a recognized name
UnknownNameOutcome ==
    (call # <<>> /\ ~RecognizedNames) =>
        /\ call.raised = "UnboundLocalError" <=> ~Bound(cfg)
        /\ call.raised = "" => call.write.kind \in {"assign_sub", "assign"}

-----------------------------------------------------------------------------
\* the plateau condition of the last step, from the values the block computed
PlateauEvent ==
    /\ QGreater(plateau.window_mean, plateau.loss_ema)
    /\ QGreater(QInt(plateau.global_step),
                QAdd(plateau.last_before, QInt(sched.reduce_lr_on_plateau_timespan)))

LastReduceMovesBack ==
    (plateau # <<>> /\ plateau.reduced) =>
        /\ last_reduce = QAdd(QMul(plateau.last_before, PlateauReduction),
                              QMul(QInt(plateau.global_step),
                                   QSub(QInt(1), PlateauReduction)))
        /\ QGreater(plateau.last_before, last_reduce)

-----------------------------------------------------------------------------
\* warmup enabled, decay and plateau reduction disabled, one step taken
WarmupOnly ==
    /\ tf_learning_rate # <<>>
    /\ sched.warmup_steps > 0
    /\ sched.learning_rate_decay_multi \in {QInt(0), QInt(1)}
    /\ sched.reduce_lr_on_plateau_timespan = 0

(* C16: with warmup_steps = W > 0, decay and plateau reduction disabled,   *)
(* the learning rate at global step s < W is base_rate x s / W (half the   *)
(* base rate at the middle of the warmup) and base_rate at every s >= W.   *)
C16_WarmupIsLinear ==
    WarmupOnly =>
        LET s == global_step - 1
        IN  /\ s < sched.warmup_steps =>
                  tf_learning_rate = QMul(LearningRate, Q(s, sched.warmup_steps))
            /\ s >= sched.warmup_steps => tf_learning_rate = LearningRate
            /\ 2 * s = sched.warmup_steps =>
                  tf_learning_rate = QMul(LearningRate, Q(1, 2))

\* the middle of a warmup of two steps
C16_Witness ==
    /\ WarmupOnly
    /\ sched.warmup_steps = 2
    /\ global_step = 2
    /\ tf_learning_rate = QMul(LearningRate, Q(1, 2))

\* the first step after the warmup
C16_WitnessAfter ==
    /\ WarmupOnly
    /\ global_step - 1 = sched.warmup_steps
    /\ tf_learning_rate = LearningRate

-----------------------------------------------------------------------------
\* C17: at the start of every slice, before build runs, NAME_INDICES and
\* params.cached_parameters are empty, whatever the previous slice left in
\* them.
C17_CachesEmptyAtBuild ==
    \A k \in DOMAIN at_build :
        /\ at_build[k].names = {}
        /\ at_build[k].cache = EmptyDict

\* a slice after the first found both caches filled by the previous build
\* and build saw them empty
C17_Witness ==
    \E k \in DOMAIN at_build :
        /\ at_build[k].slice > 1
        /\ at_build[k].names_before # {}
        /\ at_build[k].cache_before # EmptyDict
        /\ at_build[k].names = {}
        /\ at_build[k].cache = EmptyDict

-----------------------------------------------------------------------------
\* the shared call of block "0" that corresponds to the call q: same config,
\* same function name, same call index
Corresponding(q) ==
    {k \in DOMAIN requests :
        /\ requests[k].block = "0"
        /\ requests[k].config = q.config
        /\ requests[k].fn_name = q.fn_name
        /\ requests[k].index = q.index}

\* C18: a get_variable call with "shared" in a block other than "0" returns
\* the Variable that the corresponding call of block "0" created and creates
\* none; a call in block "0" creates a Variable and records it.
C18_SharedReturnsBlockZeroVariable ==
    IF got = <<>> THEN TRUE
    ELSE IF got.block = "0"
         THEN /\ got.raised = ""
              /\ got.created
              /\ got.var = made
         ELSE (got.block = "1" /\ Corresponding(got) # {}) =>
                 /\ got.raised = ""
                 /\ ~got.created
                 /\ \E k \in Corresponding(got) : requests[k].var = got.var

\* what the code does: a shared call in a block other than "0" looks the
\* Variable up under its own block, where none was ever stored
SharedOutsideBlockZeroRaises ==
    IF got = <<>> THEN TRUE
    ELSE /\ got.block = "1" => got.raised = "KeyError" /\ ~got.created
         /\ got.block = "0" => got.raised = "" /\ got.created /\ got.var = made

-----------------------------------------------------------------------------
\* C20: with grad_accumulation = N > 1, on a call whose step flag is 0 the
\* update is a no-op on the model: the variable and the first- and
\* second-moment buffers keep their values, for every optimizer and with
\* weight decay, centralisation or standardisation on a large tensor; only
\* the gradient buffer changes.
C20_NoOpWhenAccumulating ==
    Accumulating =>
        /\ var_value = call.value_before
        /\ exp_avg_p1 = call.p1_before
        /\ exp_avg_p2 = call.p2_before
        /\ grad_buffer = QAdd(call.buffer_before, call.grad_in)

\* what the code does: the moment buffers keep their values and the buffer
\* grows, and the variable keeps its value unless the tensor is large and
\* weight standardisation is on, when it is assigned its standardised value
MomentsKeptWhenAccumulating ==
    Accumulating =>
        /\ exp_avg_p1 = call.p1_before
        /\ exp_avg_p2 = call.p2_before
        /\ grad_buffer = QAdd(call.buffer_before, call.grad_in)
        /\ (var_value = call.value_before)
              <=> ~(cfg.large_tensor /\ cfg.weight_standardisation)

-----------------------------------------------------------------------------
\* mgda, the three passes made, and the values of lines 284-286 read
MgdaRead ==
    IF run_cfg = <<>> THEN FALSE
    ELSE run_cfg.multi_loss_strategy = "mgda" /\ products # <<>>

\* the sum over the body parameters processed in the pass of loss 1 of the
\* inner product of a and b: one term for the parameter if it is a body
\* parameter, none otherwise
OverBody(a, b) == IF run_cfg.body THEN Dot(a, b) ELSE QInt(0)

(* C21: under mgda the three inner products from which gamma is derived at *)
(* loss index 2 are the sums, over the body parameters processed in the    *)
(* pass of loss 1, of <g1,g1>, <g1,g2> and <g2,g2>, g1 being the gradient  *)
(* stored in the pass of loss 0 and g2 the gradient of the pass of loss 1: *)
(* what update accumulates is what get_optimizer reads.                    *)
C21_ProductsAreAccumulatedSums ==
    MgdaRead =>
        /\ products.v1v1 = OverBody(pass_grads[1], pass_grads[1])
        /\ products.v1v2 = OverBody(pass_grads[1], pass_grads[2])
        /\ products.v2v2 = OverBody(pass_grads[2], pass_grads[2])

\* what the code does: under mgda lines 93-110 are never reached, nothing is
\* stored or accumulated, the three values read are the zeros of lines
\* 277-279 and gamma is 0.999 + (0/0) * 0
ProductsReadAreZero ==
    MgdaRead =>
        /\ products.v1v1 = QInt(0)
        /\ products.v1v2 = QInt(0)
        /\ products.v2v2 = QInt(0)
        /\ IsNaN(products.gamma)
        /\ stored = <<>>

-----------------------------------------------------------------------------
\* a multi-loss strategy with a loss list of more than one entry
MultiLoss ==
    IF run_cfg = <<>> THEN FALSE
    ELSE run_cfg.losses > 1 /\ run_cfg.multi_loss_strategy \in {"pcgrad", "mgda"}

\* every update emitted so far was emitted in the pass of the last entry of
\* the loss list, and after the last pass there is exactly one
OnlyInLastPass ==
    /\ \A k \in DOMAIN emitted : emitted[k].loss_idx = run_cfg.losses - 1
    /\ pass_idx = run_cfg.losses => Len(emitted) = 1

(* C26: under a multi-loss strategy with more than one loss-list entry a   *)
(* body parameter receives exactly one update per slice: under pcgrad its  *)
(* gradient of every loss before the last is only stored and the update is *)
(* emitted in the pass of the last loss; under mgda the passes of loss 0   *)
(* and 1 emit none and the update is emitted in the pass of loss index 2,  *)
(* in which a head parameter is never updated.                             *)
C26_OneUpdatePerBodyParameter ==
    MultiLoss =>
        /\ run_cfg.body => OnlyInLastPass
        /\ (run_cfg.multi_loss_strategy = "mgda" /\ ~run_cfg.body) =>
              \A k \in DOMAIN emitted : emitted[k].loss_idx # 2

\* what the code does: the pcgrad part as claimed; under mgda every pass
\* emits an update for every parameter, body or head
UpdateInEveryMgdaPass ==
    MultiLoss =>
        /\ (run_cfg.multi_loss_strategy = "pcgrad" /\ run_cfg.body) => OnlyInLastPass
        /\ run_cfg.multi_loss_strategy = "mgda" =>
              /\ Len(emitted) = pass_idx
              /\ \A k \in DOMAIN emitted :
                    /\ emitted[k].loss_idx = k - 1
                    /\ emitted[k].grad = pass_grads[k]

-----------------------------------------------------------------------------
(* C23: every optimizer name of the recognized set {adam, sgd, novograd,   *)
(* sm3, factorized_adam} yields a defined weight update for every          *)
(* trainable variable, variables of two or more dimensions included: no    *)
(* recognized name leaves the weight update undefined.                     *)
C23_RecognizedNameBindsUpdate ==
    IF call = <<>> THEN TRUE
    ELSE cfg.optimizer \in RecognizedOptimizers =>
            /\ call.raised = ""
            /\ call.write.kind \in {"assign_sub", "assign"}

\* what the code does: under factorized_adam a variable of two or more
\* dimensions reaches line 172 with weight_update unbound; the other names
\* drawn, and every variable of at most one dimension, get an update
FactorizedAdamUnbound ==
    IF call = <<>> THEN TRUE
    ELSE cfg.optimizer \in RecognizedOptimizers =>
            (call.raised = "UnboundLocalError"
                <=> (cfg.optimizer = "factorized_adam" /\ cfg.ndims >= 2))

-----------------------------------------------------------------------------
\* a call of the rule that reached its end
Completed == IF call = <<>> THEN FALSE ELSE call.raised = ""

(* C24: a run of the update rule that reaches its end emits exactly one    *)
(* write on the trained variable: an assign of the standardised value when *)
(* the tensor is large and weight_standardisation is on, an assign_sub of  *)
(* the weight update otherwise; never both and never neither.              *)
C24_ExactlyOneWrite ==
    Completed =>
        IF cfg.large_tensor /\ cfg.weight_standardisation
        THEN /\ call.write =
                  [kind |-> "assign",
                   operand |-> LinAtom(QInt(1),
                                       <<"std", LinSub(call.value_before,
                                                       call.weight_update)>>)]
             /\ var_value = call.write.operand
        ELSE /\ call.write = [kind |-> "assign_sub", operand |-> call.weight_update]
             /\ var_value = LinSub(call.value_before, call.weight_update)

\* a committing call on a large tensor under weight standardisation: the
\* write is the assign
C24_Witness ==
    /\ Completed
    /\ cfg.large_tensor /\ cfg.weight_standardisation
    /\ call.step = QInt(1)
    /\ call.write.kind = "assign"
    /\ var_value # call.value_before

-----------------------------------------------------------------------------
\* a committing call on a large tensor with weight decay, without weight
\* centralisation and standardisation
DecayedCommit ==
    /\ Completed
    /\ cfg.large_tensor /\ cfg.weight_decay # Zero
    /\ ~cfg.weight_centralisation /\ ~cfg.weight_standardisation
    /\ call.step = QInt(1)

(* C25: for a large tensor with weight_decay > 0 the committed update      *)
(* still contains the optimizer's update: it is the optimizer update       *)
(* (times the learning rate) plus weight_decay x learning_rate x variable. *)
C25_DecayAddsToOptimizerUpdate ==
    DecayedCommit =>
        call.weight_update =
            LinAdd(call.optimizer_update,
                   LinScale(call.value_before, QMul(cfg.weight_decay, LearningRate)))

\* what the code does: the update committed is variable + weight_decay x
\* learning_rate x variable, whatever the gradient
DecayReplacesOptimizerUpdate ==
    DecayedCommit =>
        /\ call.weight_update =
              LinAdd(call.value_before,
                     LinScale(call.value_before, QMul(cfg.weight_decay, LearningRate)))
        /\ var_value = LinScale(call.value_before,
                                QMul(QInt(-1), QMul(cfg.weight_decay, LearningRate)))

-----------------------------------------------------------------------------
\* the sum of the n gradients handed to the calls k - n + 1 .. k
RECURSIVE WindowSum(_, _)
WindowSum(k, n) == IF n = 0 THEN Zero ELSE QAdd(grads[k], WindowSum(k - 1, n - 1))

(* C29: with grad_accumulation = N > 1, on a committing call (step flag 1) *)
(* that ends a window of N consecutive calls the gradient handed to        *)
(* clipping and the optimizer is (sum of the N gradients of the window) /  *)
(* N and the buffer is zero after the call; on a non-committing call the   *)
(* buffer after the call is the buffer before plus the gradient.           *)
C29_WindowMean ==
    (Completed /\ cfg.grad_accumulation > 1) =>
        IF call.step = QInt(1)
        THEN /\ Len(grads) >= cfg.grad_accumulation
             /\ call.grad_opt = QMul(WindowSum(Len(grads), cfg.grad_accumulation),
                                     Q(1, cfg.grad_accumulation))
             /\ grad_buffer = Zero
        ELSE grad_buffer = QAdd(call.buffer_before, call.grad_in)

\* the second committing call of a window of two calls with two different
\* gradients
C29_Witness ==
    /\ Completed
    /\ cfg.grad_accumulation = 2
    /\ Len(grads) = 4
    /\ call.step = QInt(1)
    /\ grads[3] # grads[4]
    /\ call.grad_opt = QMul(QAdd(grads[3], grads[4]), Q(1, 2))
    /\ grad_buffer = Zero

-----------------------------------------------------------------------------
\* a step with decay enabled and the plateau block disabled: the learning
\* rate of the step is the rate before the plateau divisor
DecayOnly ==
    /\ tf_learning_rate # <<>>
    /\ sched.learning_rate_decay_multi = DecayMulti
    /\ sched.reduce_lr_on_plateau_timespan = 0

\* the warmup ramp at step s: s / warmup_steps while s < warmup_steps, else 1
Ramp(s) ==
    IF sched.warmup_steps > 0 /\ s < sched.warmup_steps
    THEN Q(s, sched.warmup_steps) ELSE QInt(1)

\* decay_multi ^ max(s - decay_start, 0)
DecayPower(s) == QPow(DecayMulti, IF s > DecayStart THEN s - DecayStart ELSE 0)

(* C27: the learning rate before the plateau divisor is base_rate x warmup *)
(* ramp x D, D being the decay factor decay_multi^max(step - decay_start,  *)
(* 0) floored at decay_min: the floor applies to the decay factor, so      *)
(* during warmup the rate is still base_rate x step / warmup_steps x D.    *)
C27_FloorOnDecayFactor ==
    DecayOnly =>
        LET s == global_step - 1
        IN  tf_learning_rate =
                QMul(QMul(LearningRate, Ramp(s)), QMax(DecayPower(s), DecayMin))

\* what the code does: the floor is applied to the whole rate, base_rate x
\* ramp x decay power, which is therefore never below decay_min, also at
\* step 0 of a warmup
FloorOnRate ==
    DecayOnly =>
        LET s == global_step - 1
        IN  /\ tf_learning_rate =
                  QMax(QMul(QMul(LearningRate, Ramp(s)), DecayPower(s)), DecayMin)
            /\ QGeq(tf_learning_rate, DecayMin)

-----------------------------------------------------------------------------
\* the operations that consume the output of operation o
Consumers(o) == {c \in Tensors : o \in InputSet(c)}

\* the calls of update made in the running pass
CallsOfPass ==
    {k \in DOMAIN grad_outputs :
        pc # "start" /\ grad_outputs[k].loss_idx = loss_idx}

\* when the gradient rule of operation o was invoked every consumer of its
\* output had been visited, and no contribution to the output has arrived
\* since
ConsumersVisitedFirst ==
    /\ \A k \in DOMAIN grad_outputs :
          \A c \in Consumers(grad_outputs[k].op) : c > grad_outputs[k].op
    /\ \A k \in CallsOfPass :
          contributed[grad_outputs[k].op] = grad_outputs[k].contributions

(* C22: in the backward walk over operations declared in forward           *)
(* dependency order, when the gradient rule of an operation is invoked     *)
(* every consumer of its output has already been visited, so the output    *)
(* gradient handed to the rule contains all the partial contributions for  *)
(* that output, and no contribution arrives after it has been consumed.    *)
C22_GradientCompleteWhenConsumed ==
    /\ ConsumersVisitedFirst
    /\ \A k \in DOMAIN grad_outputs :
          grad_outputs[k].grad = SeqToSet(grad_outputs[k].contributions)

-----------------------------------------------------------------------------
\* no element of q occurs twice, and the elements are in the order of their
\* declaration (identities grow with every declaration)
InDeclarationOrder(q) == \A j, k \in DOMAIN q : j < k => q[j].id < q[k].id

\* the operations declared in the slices before the last that are not Assign
\* operations, and all the operations declared in the last slice
RetainedAndFinal ==
    {declared[k] : k \in {n \in DOMAIN declared :
                             \/ declared[n].slice = macro_batching
                             \/ ~IsAssign(declared[n])}}

(* C28: after the final slice the operation list of the graph holds every  *)
(* non-assignment operation retained from the slices 1..N-1 followed by    *)
(* the operations of the final slice, none of them twice and each in the   *)
(* order of its first occurrence: an operation first built in slice i      *)
(* precedes every operation first built in a slice j > i; the variable     *)
(* lists are duplicate-free.                                               *)
C28_SplicedListIsOrderedAndUnique ==
    tpc = "done" =>
        /\ SeqToSet(graph_operations) = RetainedAndFinal
        /\ Len(graph_operations) = Cardinality(RetainedAndFinal)
        /\ InDeclarationOrder(graph_operations)
        /\ \A j, k \in DOMAIN graph_operations :
              j < k => graph_operations[j].slice <= graph_operations[k].slice
        /\ InDeclarationOrder(all_variables)
        /\ Len(all_variables) = Cardinality(SeqToSet(all_variables))

\* a finished run of three slices whose model declares a Variable: the
\* Variable of the first slice was in the spliced list three times
C28_Witness ==
    /\ tpc = "done"
    /\ macro_batching = 3
    /\ \E k \in DOMAIN graph_operations :
          IsVariable(graph_operations[k]) /\ graph_operations[k].slice = 1
    /\ \E k \in DOMAIN graph_operations : graph_operations[k].slice = 2
    /\ \E k \in DOMAIN graph_operations :
          IsAssign(graph_operations[k]) /\ graph_operations[k].slice = 3
    /\ Len(all_variables) >= 3

-----------------------------------------------------------------------------
(* C30: the training loop of main terminates: from a checkpoint step below *)
(* train_steps, once estimator.train has returned, the loop condition is   *)
(* evaluated against the new step and the loop exits; with a checkpoint    *)
(* step at or above train_steps no training call is made.                  *)
C30_LoopTerminates == <>(main_pc = "exit")

\* the part of the claim that holds: no training call when the checkpoint
\* step is not below train_steps, and the loop exits
NoCallWhenAlreadyTrained ==
    (main_pc # "load" /\ current_step >= train_steps) => train_calls = 0

\* what the code does from a checkpoint step below train_steps: current_step
\* keeps the value loaded at line 95, the condition holds after every
\* training call and the loop never exits
LoopNeverExitsOnceEntered ==
    (main_pc # "load" /\ current_step < train_steps) =>
        /\ main_pc = "loop"
        /\ train_calls >= 1 =>
              checkpoint_step = train_steps /\ current_step < checkpoint_step

====
